---- MODULE Spec2Model ----
(***************************************************************************)
(* A model of edgeone_ai.py: the EdgeOne AI gateway pipe.                  *)
(*                                                                         *)
(* Strings are sequences of characters, so that splitting, stripping and   *)
(* joining are computed the way the Python code computes them.             *)
(***************************************************************************)
EXTENDS Integers, Sequences, FiniteSets, TLC

(***************************************************************************)
(* Bounds of the model.                                                    *)
(***************************************************************************)
MaxRawLen == 3

NumThreads == 2

MaxCalls == 3

MaxChanges == 2

(***************************************************************************)
(* Characters and strings.                                                 *)
(***************************************************************************)
Chars == {"a", "b", ",", ";", " ", "\n"}

\* the characters str.strip() removes (of those in Chars)
Whitespace == {" ", "\n"}

RECURSIVE StringsOfLen(_)
StringsOfLen(n) ==
    IF n = 0 THEN {<<>>}
    ELSE {Append(s, c) : s \in StringsOfLen(n - 1), c \in Chars}

RawStrings == UNION {StringsOfLen(n) : n \in 0..MaxRawLen}

\* str.strip(): leading and trailing whitespace removed
RECURSIVE LStrip(_)
LStrip(s) ==
    IF s = <<>> THEN <<>>
    ELSE IF Head(s) \in Whitespace THEN LStrip(Tail(s))
    ELSE s

RECURSIVE RStrip(_)
RStrip(s) ==
    IF s = <<>> THEN <<>>
    ELSE IF s[Len(s)] \in Whitespace THEN RStrip(SubSeq(s, 1, Len(s) - 1))
    ELSE s

Strip(s) == RStrip(LStrip(s))

\* str.split(sep): the pieces between occurrences of sep; "" gives [""]
RECURSIVE SplitAcc(_, _, _)
SplitAcc(s, sep, cur) ==
    IF s = <<>> THEN <<cur>>
    ELSE IF Head(s) = sep THEN <<cur>> \o SplitAcc(Tail(s), sep, <<>>)
    ELSE SplitAcc(Tail(s), sep, Append(cur, Head(s)))

Split(s, sep) == SplitAcc(s, sep, <<>>)

\* [k.strip() for k in pieces]
RECURSIVE StripAll(_)
StripAll(pieces) ==
    IF pieces = <<>> THEN <<>>
    ELSE <<Strip(Head(pieces))>> \o StripAll(Tail(pieces))

\* a faulty variant of KeepPiece: empty pieces are kept
KeepEveryPiece(k) == TRUE

\* the filter of the comprehension: if k.strip()
KeepPiece(k) == Strip(k) # <<>>

RECURSIVE FilterPieces(_)
FilterPieces(pieces) ==
    IF pieces = <<>> THEN <<>>
    ELSE IF KeepPiece(Head(pieces))
         THEN <<Head(pieces)>> \o FilterPieces(Tail(pieces))
         ELSE FilterPieces(Tail(pieces))

\* [k.strip() for k in raw.split(",") if k.strip()]
ParseKeys(raw) == StripAll(FilterPieces(Split(raw, ",")))

(***************************************************************************)
(* The rotator: module-level state and Pipe._get_next_api_key.             *)
(***************************************************************************)
Threads == 1..NumThreads

NoHolder == 0

\* what _get_next_api_key returns when the list is empty (None)
NoKey == <<"None">>

\* the IndexError an out-of-range list index raises
IndexError == <<"IndexError">>

VARIABLES
    CACHED_API_KEYS_STRING,  \* the raw string of the last reload
    API_KEYS_LIST,           \* the credential list
    CURRENT_KEY_INDEX,       \* the rotation cursor
    KEY_LOCK,                \* the thread holding the lock, or NoHolder
    api_keys,                \* self.valves.api_keys
    pc,                      \* each thread's position in _get_next_api_key
    key,                     \* each thread's local key / return value
    seen,                    \* per call: what it read and found (history)
    served,                  \* selections since the last reload (history)
    calls,                   \* number of calls started
    changes,                 \* number of changes of api_keys
    valves,                  \* the other valves pipe reads
    ppc,                     \* the position of the pipe call
    body,                    \* the host's request
    api_key,                 \* pipe's local api_key
    model,                   \* pipe's local model
    exc,                     \* the exception in flight inside pipe
    request,                 \* the upstream request of this call, if sent
    result,                  \* what pipe gave the host
    stream                   \* the generator _stream, as the host consumes it

rotVars == <<CACHED_API_KEYS_STRING, API_KEYS_LIST, CURRENT_KEY_INDEX,
             KEY_LOCK, api_keys, pc, key, seen, served, calls, changes>>

pipeVars == <<valves, ppc, body, api_key, model, exc, request, result, stream>>

vars == <<rotVars, pipeVars>>

globals == <<CACHED_API_KEYS_STRING, API_KEYS_LIST, CURRENT_KEY_INDEX>>

NoSeen ==
    [raw |-> <<>>, cached |-> <<>>, list |-> <<>>, cursor |-> 0,
     reloaded |-> FALSE, index |-> 0]

\* a faulty variant of LockFree: acquiring never waits
LockAlwaysFree(l) == TRUE

\* threading.Lock: acquire blocks while another thread holds it
LockFree(l) == l = NoHolder

\* a faulty variant of NeedsReload: only a change of length is noticed
ReloadOnLengthChange(raw, cached) == Len(raw) # Len(cached)

\* line 108: self.valves.api_keys != CACHED_API_KEYS_STRING
NeedsReload(raw, cached) == raw # cached

\* a faulty variant of NextIndex: the cursor skips a slot
NextIndexSkipping(i, n) == (i + 2) % n

\* line 118: (CURRENT_KEY_INDEX + 1) % len(API_KEYS_LIST)
NextIndex(i, n) == (i + 1) % n

\* _get_next_api_key is entered: the rotator side of a call
Enter(t) ==
    /\ pc[t] = "idle"
    /\ calls < MaxCalls
    /\ calls' = calls + 1
    /\ pc' = [pc EXCEPT ![t] = "L107"]
    /\ seen' = [seen EXCEPT ![t] = NoSeen]
    /\ UNCHANGED <<globals, KEY_LOCK, api_keys, key, served, changes>>

\* a host thread calls _get_next_api_key directly
Call(t) ==
    /\ Enter(t)
    /\ UNCHANGED pipeVars

\* line 107: with KEY_LOCK
Acquire(t) ==
    /\ pc[t] = "L107"
    /\ LockFree(KEY_LOCK)
    /\ KEY_LOCK' = t
    /\ pc' = [pc EXCEPT ![t] = "L108"]
    /\ seen' = [seen EXCEPT ![t].cached = CACHED_API_KEYS_STRING,
                            ![t].list = API_KEYS_LIST,
                            ![t].cursor = CURRENT_KEY_INDEX]
    /\ UNCHANGED <<pipeVars, globals, api_keys, key, served, calls, changes>>

\* line 108: the comparison reads self.valves.api_keys
Compare(t) ==
    /\ pc[t] = "L108"
    /\ seen' = [seen EXCEPT ![t].raw = api_keys]
    /\ pc' = [pc EXCEPT ![t] =
                 IF NeedsReload(api_keys, CACHED_API_KEYS_STRING)
                 THEN "L110" ELSE "L114"]
    /\ UNCHANGED <<pipeVars, globals, KEY_LOCK, api_keys, key, served, calls, changes>>

\* line 110: the list is rebuilt from a second read of self.valves.api_keys
Reload(t) ==
    /\ pc[t] = "L110"
    /\ API_KEYS_LIST' = ParseKeys(api_keys)
    /\ seen' = [seen EXCEPT ![t].reloaded = TRUE]
    /\ served' = <<>>
    /\ pc' = [pc EXCEPT ![t] = "L111"]
    /\ UNCHANGED <<pipeVars, CACHED_API_KEYS_STRING, CURRENT_KEY_INDEX, KEY_LOCK,
                   api_keys, key, calls, changes>>

\* line 111: the cache is set from a third read of self.valves.api_keys
Cache(t) ==
    /\ pc[t] = "L111"
    /\ CACHED_API_KEYS_STRING' = api_keys
    /\ pc' = [pc EXCEPT ![t] = "L112"]
    /\ UNCHANGED <<pipeVars, API_KEYS_LIST, CURRENT_KEY_INDEX, KEY_LOCK, api_keys, key,
                   seen, served, calls, changes>>

\* line 112: the cursor is reset
ResetIndex(t) ==
    /\ pc[t] = "L112"
    /\ CURRENT_KEY_INDEX' = 0
    /\ pc' = [pc EXCEPT ![t] = "L114"]
    /\ UNCHANGED <<pipeVars, CACHED_API_KEYS_STRING, API_KEYS_LIST, KEY_LOCK, api_keys,
                   key, seen, served, calls, changes>>

\* lines 114-115: an empty list returns None
CheckEmpty(t) ==
    /\ pc[t] = "L114"
    /\ IF API_KEYS_LIST = <<>>
       THEN /\ key' = [key EXCEPT ![t] = NoKey]
            /\ pc' = [pc EXCEPT ![t] = "L115"]
       ELSE /\ key' = key
            /\ pc' = [pc EXCEPT ![t] = "L117"]
    /\ UNCHANGED <<pipeVars, globals, KEY_LOCK, api_keys, seen, served, calls, changes>>

\* line 117: key = API_KEYS_LIST[CURRENT_KEY_INDEX] (Python indexes from 0);
\* an index out of range raises IndexError, and the with block releases
Select(t) ==
    /\ pc[t] = "L117"
    /\ IF CURRENT_KEY_INDEX < Len(API_KEYS_LIST)
       THEN /\ key' = [key EXCEPT ![t] = API_KEYS_LIST[CURRENT_KEY_INDEX + 1]]
            /\ served' = Append(served,
                    [index |-> CURRENT_KEY_INDEX,
                     key |-> API_KEYS_LIST[CURRENT_KEY_INDEX + 1]])
            /\ pc' = [pc EXCEPT ![t] = "L118"]
       ELSE /\ key' = [key EXCEPT ![t] = IndexError]
            /\ served' = served
            /\ pc' = [pc EXCEPT ![t] = "raise"]
    /\ seen' = [seen EXCEPT ![t].index = CURRENT_KEY_INDEX]
    /\ UNCHANGED <<pipeVars, globals, KEY_LOCK, api_keys, calls, changes>>

\* line 118: the cursor advances
Advance(t) ==
    /\ pc[t] = "L118"
    /\ CURRENT_KEY_INDEX' = NextIndex(CURRENT_KEY_INDEX, Len(API_KEYS_LIST))
    /\ pc' = [pc EXCEPT ![t] = "L119"]
    /\ UNCHANGED <<pipeVars, CACHED_API_KEYS_STRING, API_KEYS_LIST, KEY_LOCK, api_keys,
                   key, seen, served, calls, changes>>

\* lines 115 and 119 (and a raise): leaving the with block releases the lock
Return(t) ==
    /\ pc[t] \in {"L115", "L119", "raise"}
    /\ KEY_LOCK' = NoHolder
    /\ pc' = [pc EXCEPT ![t] = "idle"]
    /\ UNCHANGED <<pipeVars, globals, api_keys, key, seen, served, calls, changes>>

\* raw strings the host sets while calls are in progress: no key, one key,
\* one key with a trailing comma, another key, two keys, a bare comma
ValveStrings ==
    {<<>>, <<"a">>, <<"a", ",">>, <<"b">>, <<"a", ",", "b">>, <<",">>}

\* the host sets the valve to another raw string, at any moment
SetApiKeys ==
    /\ changes < MaxChanges
    /\ \E s \in ValveStrings \ {api_keys} : api_keys' = s
    /\ changes' = changes + 1
    /\ UNCHANGED <<pipeVars, globals, KEY_LOCK, pc, key, seen, served, calls>>


\* the statements of _get_next_api_key, lines 107-119
Step(t) ==
    \/ Acquire(t)
    \/ Compare(t)
    \/ Reload(t)
    \/ Cache(t)
    \/ ResetIndex(t)
    \/ CheckEmpty(t)
    \/ Select(t)
    \/ Advance(t)
    \/ Return(t)

GetNextApiKey(t) ==
    \/ Call(t)
    \/ Step(t)

(***************************************************************************)
(* Host messages and their two normalisations.                             *)
(***************************************************************************)
MaxMsgs == 2

Hi == <<"h", "i">>

StrContent(t) == [kind |-> "str", text |-> t, parts |-> <<>>]

ListContent(ps) == [kind |-> "list", text |-> <<>>, parts |-> ps]

TextPart(t) == [type |-> "text", text |-> t]

ImagePart == [type |-> "image_url", text |-> <<>>]

Roles == {"system", "user", "assistant"}

MessageContents ==
    {StrContent(Hi),
     ListContent(<<ImagePart>>),
     ListContent(<<ImagePart, TextPart(Hi)>>)}

Messages == [role : Roles, content : MessageContents]

MessageLists == UNION {[1..n -> Messages] : n \in 0..MaxMsgs}

\* a faulty variant of IsTextPart: every part counts as text
EveryPartIsText(item) == TRUE

\* lines 167 and 300: item.get("type") == "text"
IsTextPart(item) == item.type = "text"

\* lines 166-168 and the generator of line 300: the texts of the text parts
RECURSIVE TextsOf(_)
TextsOf(parts) ==
    IF parts = <<>> THEN <<>>
    ELSE IF IsTextPart(Head(parts))
         THEN <<Head(parts).text>> \o TextsOf(Tail(parts))
         ELSE TextsOf(Tail(parts))

\* lines 161-168: the parts of one message
GeminiParts(content) ==
    IF content.kind = "str" THEN <<content.text>>
    ELSE IF content.kind = "list" THEN TextsOf(content.parts)
    ELSE <<>>

\* lines 152-171: system messages are set aside, a message without parts is
\* left out
RECURSIVE GeminiContents(_)
GeminiContents(msgs) ==
    IF msgs = <<>> THEN <<>>
    ELSE LET msg == Head(msgs)
             parts == GeminiParts(msg.content)
         IN  IF msg.role = "system" THEN GeminiContents(Tail(msgs))
             ELSE IF parts # <<>>
                  THEN <<[role |-> IF msg.role = "assistant"
                                   THEN "model" ELSE "user",
                          parts |-> parts]>> \o GeminiContents(Tail(msgs))
                  ELSE GeminiContents(Tail(msgs))

NoInstruction == [present |-> FALSE, text |-> <<>>]

\* lines 155-158: the last system message with non-blank string content
RECURSIVE SystemInstruction(_, _)
SystemInstruction(msgs, acc) ==
    IF msgs = <<>> THEN acc
    ELSE LET msg == Head(msgs)
         IN  IF /\ msg.role = "system"
                /\ msg.content.kind = "str"
                /\ Strip(msg.content.text) # <<>>
             THEN SystemInstruction(Tail(msgs),
                      [present |-> TRUE, text |-> msg.content.text])
             ELSE SystemInstruction(Tail(msgs), acc)

\* " ".join(texts)
RECURSIVE JoinSpace(_)
JoinSpace(texts) ==
    IF texts = <<>> THEN <<>>
    ELSE IF Len(texts) = 1 THEN Head(texts)
    ELSE Head(texts) \o <<" ">> \o JoinSpace(Tail(texts))

\* lines 297-301: every message is kept, list content is flattened
RECURSIVE OpenAIMessages(_)
OpenAIMessages(msgs) ==
    IF msgs = <<>> THEN <<>>
    ELSE LET msg == Head(msgs)
         IN  <<[role |-> msg.role,
                content |-> IF msg.content.kind = "list"
                            THEN JoinSpace(TextsOf(msg.content.parts))
                            ELSE msg.content.text]>>
             \o OpenAIMessages(Tail(msgs))

(***************************************************************************)
(* The model identifier.                                                   *)
(***************************************************************************)
MaxIdLen == 4

IdChars == {"g", "p", "."}

RECURSIVE IdsOfLen(_)
IdsOfLen(n) ==
    IF n = 0 THEN {<<>>}
    ELSE {Append(s, c) : s \in IdsOfLen(n - 1), c \in IdChars}

ModelIds == UNION {IdsOfLen(n) : n \in 0..MaxIdLen}

\* sep in s
Contains(s, sep) == \E i \in 1..Len(s) : s[i] = sep

\* s.split(sep, 1): split at the first occurrence only
RECURSIVE SplitOnceAcc(_, _, _)
SplitOnceAcc(s, sep, cur) ==
    IF s = <<>> THEN <<cur>>
    ELSE IF Head(s) = sep THEN <<cur, Tail(s)>>
    ELSE SplitOnceAcc(Tail(s), sep, Append(cur, Head(s)))

SplitOnce(s, sep) == SplitOnceAcc(s, sep, <<>>)

\* pieces[-1]
Last(pieces) == pieces[Len(pieces)]

\* a faulty variant of DeriveModel: what follows the last separator
DeriveModelAfterLast(model_id) ==
    IF Contains(model_id, ".") THEN Last(Split(model_id, ".")) ELSE model_id

\* line 131: model_id.split(".", 1)[-1] if "." in model_id else model_id
DeriveModel(model_id) ==
    IF Contains(model_id, ".") THEN Last(SplitOnce(model_id, "."))
    ELSE model_id

(***************************************************************************)
(* The dispatcher: Pipe.pipe and the two adapters.                         *)
(***************************************************************************)
\* the thread that runs pipe
PipeThread == 1

\* the strings pipe returns, by the error they report
MsgNotConfigured == "ConfigurationIncomplete"

MsgNoKey == "NoCredentialAvailable"

MsgNoContent == "NoParsableContent"

MsgHttpError == "UpstreamError: HTTP status"

MsgTimeout == "Timeout"

MsgUnknown == "Unexpected"

MsgErrorObject == "UpstreamError: error object"

MsgNoResponse == "NoValidResponse"

MsgAnswer == "answer"

MsgEmpty == ""

NoResult == [kind |-> "none", val |-> ""]

Text(msg) == [kind |-> "text", val |-> msg]

Raised(name) == [kind |-> "exception", val |-> name]

Generator == [kind |-> "generator", val |-> "_stream"]

NoRequest ==
    [sent |-> FALSE, api |-> "", model |-> <<>>, key |-> NoKey,
     instruction |-> NoInstruction, payload |-> <<>>, stream |-> FALSE]

NoStream ==
    [status |-> "none", error |-> "", cause |-> "", fragments |-> <<>>,
     valid |-> <<>>, lines |-> 0]

\* lines 36-90: the defaults of the valves pipe reads
DefaultValves ==
    [oe_key |-> <<>>, gateway_name |-> <<>>, api_format |-> "gemini",
     enable_streaming |-> FALSE]

\* a faulty variant of ConfigComplete: the credential string is not looked at
ConfigCompleteWithoutKeys(keys, v) == v.oe_key # <<>> /\ v.gateway_name # <<>>

\* line 123: all([api_keys, oe_key, gateway_name])
ConfigComplete(keys, v) ==
    keys # <<>> /\ v.oe_key # <<>> /\ v.gateway_name # <<>>

\* what one upstream exchange can come to (lines 233-236 and 332-335)
Outcomes ==
    {"status_error", "timeout", "network_error", "error_object", "answer",
     "empty", "no_choice"}

\* the exception an outcome raises inside the adapter, "" when it raises none:
\* raise_for_status, the timeout, a transport failure, and [0] of an empty
\* candidates / choices list
ExceptionOf(o) ==
    CASE o = "status_error" -> "HTTPStatusError"
      [] o = "timeout" -> "TimeoutException"
      [] o = "network_error" -> "ConnectError"
      [] o = "no_choice" -> "IndexError"
      [] OTHER -> ""

\* the host calls pipe(body)
PipeStart(b) ==
    /\ ppc = "idle"
    /\ pc[PipeThread] = "idle"
    /\ calls < MaxCalls
    /\ body' = b
    /\ ppc' = "L123"
    /\ UNCHANGED <<rotVars, valves, api_key, model, exc, request, result,
                   stream>>

\* the host is done with what pipe returned: the call's frame is gone
HostDone ==
    /\ ppc = "returned"
    /\ ppc' = "idle"
    /\ body' = [model |-> <<>>, messages |-> <<>>]
    /\ api_key' = NoKey
    /\ model' = <<>>
    /\ exc' = ""
    /\ request' = NoRequest
    /\ result' = NoResult
    /\ stream' = NoStream
    /\ UNCHANGED <<rotVars, valves>>

\* lines 123-124
PipeCheckConfig ==
    /\ ppc = "L123"
    /\ IF ConfigComplete(api_keys, valves)
       THEN /\ ppc' = "L126"
            /\ result' = result
       ELSE /\ ppc' = "returned"
            /\ result' = Text(MsgNotConfigured)
    /\ UNCHANGED <<rotVars, valves, body, api_key, model, exc, request, stream>>

\* line 126: the call of _get_next_api_key
PipeGetKey ==
    /\ ppc = "L126"
    /\ Enter(PipeThread)
    /\ ppc' = "L126r"
    /\ UNCHANGED <<valves, body, api_key, model, exc, request, result, stream>>

\* line 126: _get_next_api_key has returned; what it raises is outside the try
PipeGotKey ==
    /\ ppc = "L126r"
    /\ pc[PipeThread] = "idle"
    /\ IF key[PipeThread] = IndexError
       THEN /\ result' = Raised("IndexError")
            /\ ppc' = "returned"
            /\ api_key' = api_key
       ELSE /\ api_key' = key[PipeThread]
            /\ ppc' = "L127"
            /\ result' = result
    /\ UNCHANGED <<rotVars, valves, body, model, exc, request, stream>>

\* lines 127-128
PipeCheckKey ==
    /\ ppc = "L127"
    /\ IF api_key = NoKey \/ api_key = <<>>
       THEN /\ result' = Text(MsgNoKey)
            /\ ppc' = "returned"
       ELSE /\ result' = result
            /\ ppc' = "L130"
    /\ UNCHANGED <<rotVars, valves, body, api_key, model, exc, request, stream>>

\* lines 130-131
PipeModel ==
    /\ ppc = "L130"
    /\ model' = DeriveModel(body.model)
    /\ ppc' = "L134"
    /\ UNCHANGED <<rotVars, valves, body, api_key, exc, request, result, stream>>

\* lines 133-137: the adapter is chosen by the format
PipeDispatch ==
    /\ ppc = "L134"
    /\ ppc' = IF valves.api_format = "openai" THEN "L296" ELSE "L149"
    /\ UNCHANGED <<rotVars, valves, body, api_key, model, exc, request, result,
                   stream>>

\* lines 149-179: _pipe_gemini builds the contents, and returns if none
GeminiNormalize ==
    /\ ppc = "L149"
    /\ IF GeminiContents(body.messages) = <<>>
       THEN /\ result' = Text(MsgNoContent)
            /\ ppc' = "returned"
       ELSE /\ result' = result
            /\ ppc' = "L233"
    /\ UNCHANGED <<rotVars, valves, body, api_key, model, exc, request, stream>>

\* lines 181-292: the request is posted and the response read
GeminiPost(o) ==
    /\ ppc = "L233"
    /\ request' = [sent |-> TRUE, api |-> "generateContent", model |-> model,
                   key |-> api_key,
                   instruction |-> SystemInstruction(body.messages,
                                                     NoInstruction),
                   payload |-> GeminiContents(body.messages),
                   stream |-> FALSE]
    /\ IF ExceptionOf(o) # ""
       THEN /\ exc' = ExceptionOf(o)
            /\ ppc' = "L138"
            /\ result' = result
       ELSE /\ exc' = exc
            /\ ppc' = "returned"
            /\ result' = Text(CASE o = "error_object" -> MsgErrorObject
                                [] o = "empty" -> MsgNoResponse
                                [] OTHER -> MsgAnswer)
    /\ UNCHANGED <<rotVars, valves, body, api_key, model, stream>>

\* lines 296-304: _pipe_openai builds the messages, and returns if none
OpenAINormalize ==
    /\ ppc = "L296"
    /\ IF OpenAIMessages(body.messages) = <<>>
       THEN /\ result' = Text(MsgNoContent)
            /\ ppc' = "returned"
       ELSE /\ result' = result
            /\ ppc' = "L329"
    /\ UNCHANGED <<rotVars, valves, body, api_key, model, exc, request, stream>>

OpenAIRequest(streaming) ==
    [sent |-> TRUE, api |-> "chat/completions", model |-> model,
     key |-> api_key, instruction |-> NoInstruction,
     payload |-> OpenAIMessages(body.messages), stream |-> streaming]

\* lines 329-330: with streaming on, the generator is returned, not yet run
OpenAIStreaming ==
    /\ ppc = "L329"
    /\ valves.enable_streaming
    /\ result' = Generator
    /\ stream' = [NoStream EXCEPT !.status = "created"]
    /\ ppc' = "returned"
    /\ UNCHANGED <<rotVars, valves, body, api_key, model, exc, request>>

\* lines 332-340: the request is posted and the response read
OpenAIPost(o) ==
    /\ ppc = "L329"
    /\ ~valves.enable_streaming
    /\ request' = OpenAIRequest(FALSE)
    /\ IF ExceptionOf(o) # ""
       THEN /\ exc' = ExceptionOf(o)
            /\ ppc' = "L138"
            /\ result' = result
       ELSE /\ exc' = exc
            /\ ppc' = "returned"
            /\ result' = Text(CASE o = "error_object" -> MsgErrorObject
                                [] o = "empty" -> MsgEmpty
                                [] OTHER -> MsgAnswer)
    /\ UNCHANGED <<rotVars, valves, body, api_key, model, stream>>

\* lines 138-145: the except clauses of pipe
PipeExcept ==
    /\ ppc = "L138"
    /\ result' = Text(CASE exc = "HTTPStatusError" -> MsgHttpError
                        [] exc = "TimeoutException" -> MsgTimeout
                        [] OTHER -> MsgUnknown)
    /\ exc' = ""
    /\ ppc' = "returned"
    /\ UNCHANGED <<rotVars, valves, body, api_key, model, request, stream>>

(***************************************************************************)
(* The stream decoder: the generator Pipe._stream, run by the host.        *)
(***************************************************************************)
MaxLines == 3

\* a line of the response, by what the decoder looks at: the "data: " prefix,
\* the form of the rest, and for JSON the value it parses to
Line(prefix, form, type, choices, delta, content) ==
    [prefix |-> prefix, form |-> form, type |-> type, choices |-> choices,
     delta |-> delta, content |-> content]

Frame(content) == Line(TRUE, "json", "object", "one", "object", content)

Lines ==
    {Line(FALSE, "other", "", "", "", ""),                 \* ": ping", ""
     Line(TRUE, "blank", "", "", "", ""),                  \* "data:  "
     Line(TRUE, "done", "", "", "", ""),                   \* "data: [DONE]"
     Line(TRUE, "other", "", "", "", ""),                  \* "data: not-json"
     Frame("He"),
     Frame("llo"),
     Frame(""),                                            \* content ""
     Line(TRUE, "json", "object", "absent", "", ""),       \* {"id": 1}
     Line(TRUE, "json", "object", "one", "absent", ""),    \* {"choices":[{}]}
     Line(TRUE, "json", "object", "empty", "", ""),        \* {"choices":[]}
     Line(TRUE, "json", "object", "one", "null", ""),      \* "delta": null
     Line(TRUE, "json", "number", "", "", "")}             \* 123

\* line 352: json.loads raises JSONDecodeError on what is not JSON
JsonLoadsFails(line) == line.form # "json"

\* line 353: the exception the extraction raises, "" when none:
\* .get on a non-object, [0] of an empty list, .get on null
ExtractError(line) ==
    IF line.type # "object" THEN "AttributeError"
    ELSE IF line.choices = "empty" THEN "IndexError"
    ELSE IF line.choices = "one" /\ line.delta = "null" THEN "AttributeError"
    ELSE ""

\* line 353: data.get("choices", [{}])[0].get("delta", {}).get("content", "")
ExtractText(line) ==
    IF line.choices = "one" /\ line.delta = "object" THEN line.content ELSE ""

\* lines 348-350: the line carries a payload to decode
HasPayload(line) == line.prefix /\ line.form \notin {"blank", "done"}

\* lines 344-346: the first iteration sends the request; raise_for_status and
\* the transport raise into the host's iteration
StreamOpen(o) ==
    /\ stream.status = "created"
    /\ request' = OpenAIRequest(TRUE)
    /\ stream' = IF o = "ok" THEN [stream EXCEPT !.status = "open"]
                 ELSE [stream EXCEPT !.status = "raised",
                                     !.error = ExceptionOf(o),
                                     !.cause = "transport"]
    /\ UNCHANGED <<rotVars, valves, ppc, body, api_key, model, exc, result>>

\* lines 347-357: one line of the response
StreamLine(line) ==
    /\ stream.status = "open"
    /\ stream.lines < MaxLines
    /\ LET decodable == HasPayload(line) /\ ~JsonLoadsFails(line)
           err == IF decodable THEN ExtractError(line) ELSE ""
           text == IF decodable /\ err = "" THEN ExtractText(line) ELSE ""
       IN  stream' =
             [stream EXCEPT
                !.lines = @ + 1,
                !.valid = IF line \in {Frame("He"), Frame("llo")}
                          THEN Append(@, line.content) ELSE @,
                !.status = IF err # "" THEN "raised" ELSE @,
                !.error = err,
                !.cause = IF err # "" THEN "line" ELSE @,
                !.fragments = IF text # "" THEN Append(@, text) ELSE @]
    /\ UNCHANGED <<rotVars, valves, ppc, body, api_key, model, exc, request,
                   result>>

\* line 347: the response ends, and so does the generator
StreamEnd ==
    /\ stream.status = "open"
    /\ stream' = [stream EXCEPT !.status = "ended"]
    /\ UNCHANGED <<rotVars, valves, ppc, body, api_key, model, exc, request,
                   result>>

\* line 347: reading the next line times out or the connection breaks
StreamFail ==
    /\ stream.status = "open"
    /\ stream' = [stream EXCEPT !.status = "raised", !.error = "ReadTimeout",
                                !.cause = "transport"]
    /\ UNCHANGED <<rotVars, valves, ppc, body, api_key, model, exc, request,
                   result>>

\* the statements of pipe and of the adapter it calls
PipeStep ==
    \/ PipeCheckConfig
    \/ PipeGetKey
    \/ PipeGotKey
    \/ PipeCheckKey
    \/ PipeModel
    \/ PipeDispatch
    \/ GeminiNormalize
    \/ \E o \in Outcomes : GeminiPost(o)
    \/ OpenAINormalize
    \/ OpenAIStreaming
    \/ \E o \in Outcomes : OpenAIPost(o)
    \/ PipeExcept
    \/ HostDone

Stream ==
    \/ \E o \in {"ok", "status_error", "timeout", "network_error"} :
           StreamOpen(o)
    \/ \E line \in Lines : StreamLine(line)
    \/ StreamEnd
    \/ StreamFail

(***************************************************************************)
(* Specifications.                                                         *)
(***************************************************************************)
\* lines 23-26
InitRotator ==
    /\ CACHED_API_KEYS_STRING = <<>>
    /\ API_KEYS_LIST = <<>>
    /\ CURRENT_KEY_INDEX = 0
    /\ KEY_LOCK = NoHolder
    /\ pc = [t \in Threads |-> "idle"]
    /\ key = [t \in Threads |-> NoKey]
    /\ seen = [t \in Threads |-> NoSeen]
    /\ served = <<>>
    /\ calls = 0
    /\ changes = 0

\* no pipe call has been made
InitPipe ==
    /\ ppc = "idle"
    /\ body = [model |-> <<>>, messages |-> <<>>]
    /\ api_key = NoKey
    /\ model = <<>>
    /\ exc = ""
    /\ request = NoRequest
    /\ result = NoResult
    /\ stream = NoStream

\* lines 92-93: the valves as constructed
Init ==
    /\ InitRotator
    /\ InitPipe
    /\ api_keys = <<>>
    /\ valves = DefaultValves

Next ==
    \/ \E t \in Threads : GetNextApiKey(t)
    \/ SetApiKeys

\* concurrent calls of _get_next_api_key while the host may change the valve
Spec == Init /\ [][Next]_vars

\* the valve holds one raw string throughout
InitFixed ==
    /\ InitRotator
    /\ InitPipe
    /\ api_keys \in RawStrings
    /\ valves = DefaultValves

NextFixed == \E t \in Threads : GetNextApiKey(t)

\* concurrent calls of _get_next_api_key against one raw string
SpecFixed == InitFixed /\ [][NextFixed]_vars

ValveSettings ==
    [oe_key : {<<>>, <<"k">>}, gateway_name : {<<>>, <<"g">>},
     api_format : {"gemini", "openai"}, enable_streaming : BOOLEAN]

Bodies == [model : {<<"p", ".", "g">>}, messages : MessageLists]

\* the host has set the valves
InitDispatch ==
    /\ InitRotator
    /\ InitPipe
    /\ api_keys \in {<<>>, <<",">>, <<"a", ",", "b">>}
    /\ valves \in ValveSettings

NextDispatch ==
    \/ \E b \in Bodies : PipeStart(b)
    \/ PipeStep
    \/ Step(PipeThread)

\* sequential pipe calls over every setting of the valves and every body
SpecDispatch == InitDispatch /\ [][NextDispatch]_vars

IdBodies ==
    [model : ModelIds,
     messages : {<<[role |-> "user", content |-> StrContent(Hi)]>>}]

CompleteSettings ==
    {v \in ValveSettings : v.oe_key # <<>> /\ v.gateway_name # <<>>}

\* the valves are set completely
InitModelId ==
    /\ InitRotator
    /\ InitPipe
    /\ api_keys = <<"a">>
    /\ valves \in CompleteSettings

NextModelId ==
    \/ \E b \in IdBodies : PipeStart(b)
    \/ PipeStep
    \/ Step(PipeThread)

\* pipe calls over every model id
SpecModelId == InitModelId /\ [][NextModelId]_vars

StreamBodies ==
    [model : {<<"g">>},
     messages : {<<>>, <<[role |-> "user", content |-> StrContent(Hi)]>>}]

\* the valves are set completely
InitStream ==
    /\ InitRotator
    /\ InitPipe
    /\ api_keys = <<"a", ",", "b">>
    /\ valves \in CompleteSettings

NextStream ==
    \/ \E b \in StreamBodies : PipeStart(b)
    \/ PipeStep
    \/ Step(PipeThread)
    \/ Stream

\* pipe calls, the host consuming the generator a streaming call returns
SpecStream == InitStream /\ [][NextStream]_vars

(***************************************************************************)
(* Properties.                                                             *)
(***************************************************************************)
\* the raw string is made of characters of S only
OnlyFrom(S) == \A i \in 1..Len(api_keys) : api_keys[i] \in S

\* how many selections since the reload were made at slot s
SlotCount(s) == Cardinality({i \in 1..Len(served) : served[i].index = s})

\* C1: with one raw string that parses to k0..k(K-1), K > 0, the i-th
\* selection since the reload (i from 0) is made at index i mod K and returns
\* k(i mod K), the value the call returns, and no index is out of range
C1_RoundRobin ==
    LET ks == ParseKeys(api_keys)
        K == Len(ks)
    IN  K > 0 =>
          /\ \A i \in 1..Len(served) :
                /\ served[i].index = (i - 1) % K
                /\ served[i].key = ks[((i - 1) % K) + 1]
          /\ \A t \in Threads :
                /\ pc[t] # "raise"
                /\ key[t] # IndexError
                /\ pc[t] = "L119" => key[t] = served[Len(served)].key

\* three selections over a list of two: the rotation has wrapped
C1_Witness ==
    /\ Len(ParseKeys(api_keys)) = 2
    /\ Len(served) = 3
    /\ \E t \in Threads : pc[t] = "L119"

\* C2: N calls from several threads against a list of size K > 0 take each
\* slot floor(N/K) or ceil(N/K) times, and no two of K consecutive selections
\* read the same cursor value
C2_FairShare ==
    LET K == Len(API_KEYS_LIST)
        N == Len(served)
    IN  K > 0 =>
          /\ \A s \in 0..(K - 1) :
                SlotCount(s) \in {N \div K, (N + K - 1) \div K}
          /\ \A i, j \in 1..N :
                (i < j /\ j - i < K) => served[i].index # served[j].index

\* a thread advances the cursor of a two-key list for the second time while
\* another thread waits for the lock
C2_Witness ==
    /\ Len(API_KEYS_LIST) = 2
    /\ Len(served) = 2
    /\ \E t, u \in Threads : t # u /\ pc[t] = "L118" /\ pc[u] = "L107"

\* C3: a call rebuilds the list if and only if the raw string it compares
\* differs from the cached one; a rebuilding call selects at cursor 0; a call
\* that does not rebuild leaves the list and the cached string as they were
C3_ReloadIffChanged ==
    \A t \in Threads :
        /\ pc[t] \in {"L110", "L111", "L112"} => seen[t].raw # seen[t].cached
        /\ pc[t] \in {"L114", "L115", "L117", "L118", "L119"} =>
              /\ seen[t].reloaded <=> (seen[t].raw # seen[t].cached)
              /\ ~seen[t].reloaded =>
                    /\ API_KEYS_LIST = seen[t].list
                    /\ CACHED_API_KEYS_STRING = seen[t].cached
        /\ (pc[t] \in {"L114", "L115", "L117"} /\ seen[t].reloaded) =>
              CURRENT_KEY_INDEX = 0
        /\ (pc[t] \in {"L118", "L119"} /\ seen[t].reloaded) => seen[t].index = 0

\* a call found the cursor at 1, rebuilt the list and selected at 0
C3_Witness ==
    \E t \in Threads :
        /\ pc[t] = "L119"
        /\ seen[t].reloaded
        /\ seen[t].cursor = 1
        /\ seen[t].index = 0

\* C4: no failure of a pipe call reaches the host as an exception, neither
\* from pipe itself nor while the host consumes the generator it returned
C4_NoExceptionReachesHost ==
    /\ result.kind # "exception"
    /\ stream.status # "raised"

\* C5 as stated: with an empty credential string pipe returns
\* NoCredentialAvailable when the gateway key and name are set, and
\* ConfigurationIncomplete when they are empty too
C5_EmptyKeysAsStated ==
    (api_keys = <<>> /\ ppc = "returned") =>
        /\ result \in {Text(MsgNoKey), Text(MsgNotConfigured)}
        /\ (valves.oe_key = <<>> /\ valves.gateway_name = <<>>) =>
              result = Text(MsgNotConfigured)
        /\ (valves.oe_key # <<>> /\ valves.gateway_name # <<>>) =>
              result = Text(MsgNoKey)

\* C5 as amended: with an empty credential string pipe returns
\* ConfigurationIncomplete whatever the other valves hold, before the rotator
\* is called, without a request and without an exception;
\* NoCredentialAvailable is returned only for a non-empty string that parses
\* to no credential
C5_EmptyKeysNotConfigured ==
    /\ api_keys = <<>> =>
          /\ ~request.sent
          /\ result.kind # "exception"
          /\ ppc \in {"idle", "L123", "returned"}
          /\ ppc = "returned" => result = Text(MsgNotConfigured)
    /\ result = Text(MsgNoKey) =>
          api_keys # <<>> /\ ParseKeys(api_keys) = <<>>

\* an empty credential string with the gateway key and name set
C5_Witness ==
    /\ api_keys = <<>>
    /\ valves.oe_key # <<>>
    /\ valves.gateway_name # <<>>
    /\ ppc = "returned"
    /\ result = Text(MsgNotConfigured)

\* the list is empty and no call selects or returns a credential
NoCredentialEver ==
    /\ API_KEYS_LIST = <<>>
    /\ \A t \in Threads : key[t] = NoKey /\ pc[t] \notin {"L117", "L118", "L119"}

\* C6 as stated, the separators being those of the data model (comma,
\* newline, semicolon): a raw string of separators and whitespace only gives
\* an empty list and None on every call
C6_SeparatorsAsStated == OnlyFrom({",", ";", "\n", " "}) => NoCredentialEver

\* C6 as amended: a raw string of commas and whitespace only gives an empty
\* list and None on every call
C6_CommasAndWhitespace == OnlyFrom({",", "\n", " "}) => NoCredentialEver

\* a call has rebuilt the list from a non-empty string of commas and
\* whitespace and returns None
C6_Witness ==
    /\ api_keys # <<>>
    /\ OnlyFrom({",", "\n", " "})
    /\ \E i \in 1..Len(api_keys) : api_keys[i] = ","
    /\ \E t \in Threads : pc[t] = "L115" /\ seen[t].reloaded

\* C7: no line ends the fragment sequence, and the fragments yielded are
\* those of the valid frames received, in order
C7_LineErrorsSkipped ==
    /\ stream.cause # "line"
    /\ stream.status \in {"open", "ended"} => stream.fragments = stream.valid

\* the message has text: string content, or a part of type text
HasText(msg) ==
    \/ msg.content.kind = "str"
    \/ \E i \in 1..Len(msg.content.parts) : msg.content.parts[i].type = "text"

\* the messages that become native turns
KeptNative(msgs) ==
    {i \in 1..Len(msgs) : msgs[i].role # "system" /\ HasText(msgs[i])}

\* C8 as stated: in either format a message with only non-text parts is not
\* in the output, and if every message is such the call does not get past
\* the normalisation and sends nothing
C8_BothFormatsDrop ==
    /\ request.sent =>
          Len(request.payload) <=
              Cardinality({i \in 1..Len(body.messages) :
                              HasText(body.messages[i])})
    /\ (\A i \in 1..Len(body.messages) : ~HasText(body.messages[i])) =>
          /\ ~request.sent
          /\ ppc \notin {"L233", "L329", "L138"}
          /\ result # Generator

\* C8 as amended: the native format drops a message with only non-text
\* parts, and with no turn left returns NoParsableContent without a request;
\* the compat format keeps every message, and returns NoParsableContent only
\* for an empty message list
C8_NativeDropsNonText ==
    /\ (request.sent /\ request.api = "generateContent") =>
          /\ Len(request.payload) = Cardinality(KeptNative(body.messages))
          /\ \A i \in 1..Len(request.payload) : request.payload[i].parts # <<>>
    /\ (request.sent /\ request.api = "chat/completions") =>
          Len(request.payload) = Len(body.messages)
    /\ \/ valves.api_format = "gemini" /\ KeptNative(body.messages) = {}
       \/ valves.api_format = "openai" /\ body.messages = <<>>
       => /\ ~request.sent
          /\ ppc \notin {"L233", "L329", "L138"}
          /\ result \in {NoResult, Text(MsgNotConfigured), Text(MsgNoKey),
                         Text(MsgNoContent)}
    /\ result = Text(MsgNoContent) =>
          \/ valves.api_format = "gemini" /\ KeptNative(body.messages) = {}
          \/ valves.api_format = "openai" /\ body.messages = <<>>

\* a native call whose messages all have only non-text parts
C8_Witness ==
    /\ valves.api_format = "gemini"
    /\ Len(body.messages) = 2
    /\ \A i \in 1..Len(body.messages) :
          body.messages[i].role # "system" /\ ~HasText(body.messages[i])
    /\ ppc = "returned"
    /\ result = Text(MsgNoContent)

\* pipe has derived the model and not yet returned
ModelDerived == ppc \in {"L134", "L149", "L296", "L233", "L329", "L138"}

\* C9 as stated: the model is what follows the last "." of the id, or the id
\* when it holds none
C9_AfterLastSeparator ==
    LET id == body.model
    IN  /\ ModelDerived =>
              IF \A i \in 1..Len(id) : id[i] # "." THEN model = id
              ELSE \E i \in 1..Len(id) :
                      /\ id[i] = "."
                      /\ \A j \in (i + 1)..Len(id) : id[j] # "."
                      /\ model = SubSeq(id, i + 1, Len(id))
        /\ request.sent => request.model = model

\* C9 as amended: the model is what follows the first "." of the id, or the
\* id when it holds none
C9_AfterFirstSeparator ==
    LET id == body.model
    IN  /\ ModelDerived =>
              IF \A i \in 1..Len(id) : id[i] # "." THEN model = id
              ELSE \E i \in 1..Len(id) :
                      /\ id[i] = "."
                      /\ \A j \in 1..(i - 1) : id[j] # "."
                      /\ model = SubSeq(id, i + 1, Len(id))
        /\ request.sent => request.model = model

\* a request went upstream for an id with two separators
C9_Witness ==
    /\ request.sent
    /\ Cardinality({i \in 1..Len(body.model) : body.model[i] = "."}) = 2
    /\ \E i \in 1..Len(request.model) : request.model[i] = "."

\* C10: whenever the lock is free the list is the parse of the cached string,
\* and a returning call's credential is read at an in-range index of the list
\* parsed from the raw string the call compared
C10_ListMatchesCache ==
    /\ KEY_LOCK = NoHolder =>
          API_KEYS_LIST = ParseKeys(CACHED_API_KEYS_STRING)
    /\ \A t \in Threads :
          pc[t] = "L119" =>
              /\ seen[t].index < Len(ParseKeys(seen[t].raw))
              /\ key[t] = ParseKeys(seen[t].raw)[seen[t].index + 1]

====
